---- MODULE Spec2Model ----
(***************************************************************************)
(* Model of the Mandelbrot viewer: the viewport controller of              *)
(* src/gui/gui.py (MandelbrotGUI), the worker thread of                    *)
(* src/threads/guiworker.py (GUIWorker) and the start-up of src/Main.py.   *)
(*                                                                         *)
(* Python floats are modelled by exact rationals <<n, d>> (d > 0, lowest   *)
(* terms): the arithmetic of the handlers is kept operation by operation,  *)
(* its rounding is not.                                                    *)
(***************************************************************************)
EXTENDS Integers, Sequences, FiniteSets, TLC

VARIABLES
    gui_pc,         \* "constructed" after __init__, "mainloop" after display()
    xmin, xmax,     \* self.xmin, self.xmax: the bounds given at construction
    ymin, ymax,     \* self.ymin, self.ymax
    zoomfactor_in,  \* self.zoomfactor_in
    zoomfactor_out, \* self.zoomfactor_out
    currdata,       \* self.currdata = (xmin, ymin, xmax, ymax) of the viewport
    cd_width,       \* self.cd_width
    cd_height,      \* self.cd_height
    curr_zoomlvl,   \* self.curr_zoomlvl
    processing,     \* self.processing
    mset,           \* self.mset: None or the grid last handed to the renderer
    workers,        \* the started GUIWorker threads whose callback has not returned
    handled,        \* history: the handler run by the last step and its outcome
    nclicks,        \* history: number of accepted left clicks
    prezoom,        \* history: if the last accepted request was a zoom, the
                    \* viewport and level before it and the zoom before it
    call,           \* the last direct call of a function of mandelbrotops
    result          \* what that call returned

vars == <<gui_pc, xmin, xmax, ymin, ymax, zoomfactor_in, zoomfactor_out,
          currdata, cd_width, cd_height, curr_zoomlvl, processing, mset,
          workers, handled, nclicks, prezoom, call, result>>

(***************************************************************************)
(* Bounds of the model.                                                    *)
(***************************************************************************)
MaxZoom == 1
MaxClicks == 1

(***************************************************************************)
(* Exact rational arithmetic.                                              *)
(***************************************************************************)
Abs(i) == IF i < 0 THEN -i ELSE i

RECURSIVE GCD(_, _)
GCD(a, b) == IF b = 0 THEN a ELSE GCD(b, a % b)

Norm(n, d) ==
    LET g == GCD(Abs(n), Abs(d))
        s == IF d < 0 THEN -1 ELSE 1
    IN  <<(s * n) \div g, (s * d) \div g>>

R(i) == <<i, 1>>
Q(n, d) == Norm(n, d)
\* sums over the least common denominator, products after cancelling, so
\* that no intermediate value is larger than it has to be
RAdd(a, b) ==
    LET g == GCD(a[2], b[2])
    IN  Norm(a[1] * (b[2] \div g) + b[1] * (a[2] \div g), (a[2] \div g) * b[2])
RNeg(a) == <<-a[1], a[2]>>
RSub(a, b) == RAdd(a, RNeg(b))
RMul(a, b) ==
    LET g1 == GCD(Abs(a[1]), b[2])
        g2 == GCD(Abs(b[1]), a[2])
    IN  Norm((a[1] \div g1) * (b[1] \div g2), (a[2] \div g2) * (b[2] \div g1))
RDiv(a, b) == RMul(a, Norm(b[2], b[1]))
RLess(a, b) ==
    LET g == GCD(a[2], b[2])
    IN  a[1] * (b[2] \div g) < b[1] * (a[2] \div g)
fabs(a) == <<Abs(a[1]), a[2]>>

\* None, where a grid is expected, and where a coordinate is expected
None == [none |-> TRUE]
NoCoord == <<>>

(***************************************************************************)
(* src/Main.py SETTINGS, and the keyword arguments of MandelbrotGUI.       *)
(***************************************************************************)
width == 10
height == 10
maxiter == 128
dpi == 75

SETTINGS ==
    { [xmin |-> Q(-2, 1), xmax |-> Q(1, 2), ymin |-> Q(-5, 4), ymax |-> Q(5, 4),
       zoomfactor |-> Q(7, 10)],
      [xmin |-> Q(0, 1), xmax |-> Q(1, 1), ymin |-> Q(-1, 1), ymax |-> Q(2, 1),
       zoomfactor |-> Q(1, 2)] }

img_width == dpi * width
img_height == dpi * height

(***************************************************************************)
(* The viewport setters.                                                   *)
(***************************************************************************)
\* as calc_cd_wh, the width taken from the y bounds
calc_cd_wh_yonly(data) ==
    [cd_width  |-> fabs(RSub(data[2], data[4])),
     cd_height |-> fabs(RSub(data[2], data[4]))]

calc_cd_wh(data) ==
    [cd_width  |-> fabs(RSub(data[1], data[3])),
     cd_height |-> fabs(RSub(data[2], data[4]))]

set_currdata_d(data) ==
    [currdata  |-> data,
     cd_width  |-> calc_cd_wh(data).cd_width,
     cd_height |-> calc_cd_wh(data).cd_height]

set_currdata(x0, y0, x1, y1) == set_currdata_d(<<x0, y0, x1, y1>>)

View == [currdata |-> currdata, cd_width |-> cd_width, cd_height |-> cd_height]

SetView(v) ==
    /\ currdata' = v.currdata
    /\ cd_width' = v.cd_width
    /\ cd_height' = v.cd_height

NoZoom == [op |-> "none", before |-> "none", currdata |-> <<>>, curr_zoomlvl |-> 0]

Init ==
    /\ \E s \in SETTINGS :
          /\ xmin = s.xmin
          /\ xmax = s.xmax
          /\ ymin = s.ymin
          /\ ymax = s.ymax
          /\ zoomfactor_in = s.zoomfactor
          /\ zoomfactor_out = RDiv(R(1), s.zoomfactor)
          /\ currdata = set_currdata(s.xmin, s.ymin, s.xmax, s.ymax).currdata
          /\ cd_width = set_currdata(s.xmin, s.ymin, s.xmax, s.ymax).cd_width
          /\ cd_height = set_currdata(s.xmin, s.ymin, s.xmax, s.ymax).cd_height
    /\ gui_pc = "constructed"
    /\ processing = FALSE
    /\ curr_zoomlvl = 0
    /\ mset = None
    /\ workers = <<>>
    /\ handled = [op |-> "none", outcome |-> "none"]
    /\ nclicks = 0
    /\ prezoom = NoZoom
    /\ call = None
    /\ result = None

(***************************************************************************)
(* The worker thread and the sample pass.                                  *)
(***************************************************************************)
\* The grid of one pass, kept as what determines it: the bounds sampled,
\* the pixel dimensions and the iteration cap.
mandelbrot_set_for_image(x0, x1, y0, y1, w, h, mi, d) ==
    [xmin |-> x0, xmax |-> x1, ymin |-> y0, ymax |-> y1,
     img_width |-> d * w, img_height |-> d * h, maxiter |-> mi]

GUIWorker(x0, x1, y0, y1, w, h, mi, d) ==
    [xmin |-> x0, xmax |-> x1, ymin |-> y0, ymax |-> y1,
     width |-> w, height |-> h, maxiter |-> mi, dpi |-> d,
     pc |-> "started"]

\* _calc_mandelbrot, called once data is the value of self.currdata
calc_mandelbrot(data) ==
    workers' = Append(workers,
                      GUIWorker(data[1], data[3], data[2], data[4],
                                width, height, maxiter, dpi))

Remove(seq, i) == SubSeq(seq, 1, i - 1) \o SubSeq(seq, i + 1, Len(seq))

NoEvent == [op |-> "none", outcome |-> "none"]

\* _calc_mandelbrot_callback(mset, starttime, endtime) up to its last
\* statement: the grid is handed to the renderer.  It runs on the thread of
\* worker i, which called it.
calc_mandelbrot_callback(i, grid) ==
    /\ mset' = grid
    /\ workers' = [workers EXCEPT ![i].pc = "callback"]
    /\ UNCHANGED <<gui_pc, xmin, xmax, ymin, ymax, zoomfactor_in,
                   zoomfactor_out, currdata, cd_width, cd_height,
                   curr_zoomlvl, processing, nclicks>>

\* as run, the pass computed from the viewport of the controller when it runs
run_currdata(i) ==
    /\ i \in 1..Len(workers)
    /\ workers[i].pc = "started"
    /\ calc_mandelbrot_callback(i,
           mandelbrot_set_for_image(currdata[1], currdata[3],
                                    currdata[2], currdata[4],
                                    width, height, maxiter, dpi))
    /\ handled' = NoEvent

\* GUIWorker.run: the pass is computed from the fields of the worker and the
\* callback is called with its result
run(i) ==
    /\ i \in 1..Len(workers)
    /\ workers[i].pc = "started"
    /\ calc_mandelbrot_callback(i,
           mandelbrot_set_for_image(workers[i].xmin, workers[i].xmax,
                                    workers[i].ymin, workers[i].ymax,
                                    workers[i].width, workers[i].height,
                                    workers[i].maxiter, workers[i].dpi))
    /\ handled' = NoEvent

\* the last statement of _calc_mandelbrot_callback; the callback and run return
calc_mandelbrot_callback_done(i) ==
    /\ i \in 1..Len(workers)
    /\ workers[i].pc = "callback"
    /\ processing' = FALSE
    /\ workers' = Remove(workers, i)
    /\ handled' = NoEvent
    /\ UNCHANGED <<gui_pc, xmin, xmax, ymin, ymax, zoomfactor_in,
                   zoomfactor_out, currdata, cd_width, cd_height,
                   curr_zoomlvl, mset, nclicks>>

(***************************************************************************)
(* Start-up: display() calls _initgui, which dispatches the first pass,    *)
(* and enters the main loop.                                               *)
(***************************************************************************)
initgui ==
    /\ calc_mandelbrot(currdata)
    /\ UNCHANGED <<xmin, xmax, ymin, ymax, zoomfactor_in, zoomfactor_out,
                   currdata, cd_width, cd_height, curr_zoomlvl, processing,
                   mset, nclicks>>

display ==
    /\ gui_pc = "constructed"
    /\ initgui
    /\ gui_pc' = "mainloop"
    /\ handled' = NoEvent

(***************************************************************************)
(* Coordinates.                                                            *)
(***************************************************************************)
\* as transform_coords, the origin of the viewport not added
transform_coords_noorigin(v, coords) ==
    LET w1 == R(width * dpi)
        h1 == R(height * dpi)
        w2 == v.cd_width
        h2 == v.cd_height
        x_new == RMul(RDiv(coords[1], w1), w2)
        y_new == RMul(RDiv(coords[2], h1), h2)
    IN  <<x_new, y_new>>

transform_coords(v, coords) ==
    LET x1 == R(0)
        y1 == R(0)
        w1 == R(width * dpi)
        h1 == R(height * dpi)
        x2 == v.currdata[1]
        y2 == v.currdata[2]
        w2 == v.cd_width
        h2 == v.cd_height
        x_new == RAdd(RMul(RDiv(RSub(coords[1], x1), w1), w2), x2)
        y_new == RAdd(RMul(RDiv(RSub(coords[2], y1), h1), h2), y2)
    IN  <<x_new, y_new>>

\* as calc_new_coordinates_around, the width subtracted where it is added
calc_new_coordinates_around_minus(v, coords) ==
    LET xmin_new == RSub(coords[1], RDiv(v.cd_width, R(2)))
        ymin_new == RSub(coords[2], RDiv(v.cd_height, R(2)))
        xmax_new == RSub(xmin_new, v.cd_width)
        ymax_new == RAdd(ymin_new, v.cd_height)
    IN  <<xmin_new, ymin_new, xmax_new, ymax_new>>

calc_new_coordinates_around(v, coords) ==
    LET xmin_new == RSub(coords[1], RDiv(v.cd_width, R(2)))
        ymin_new == RSub(coords[2], RDiv(v.cd_height, R(2)))
        xmax_new == RAdd(xmin_new, v.cd_width)
        ymax_new == RAdd(ymin_new, v.cd_height)
    IN  <<xmin_new, ymin_new, xmax_new, ymax_new>>

\* as apply_zoomin, zooming around the lower left corner instead of the middle
apply_zoomin_corner(v, zf_in) ==
    LET mid == <<v.currdata[1], v.currdata[2]>>
        wval == RMul(RDiv(v.cd_width, R(2)), zf_in)
        hval == RMul(RDiv(v.cd_height, R(2)), zf_in)
    IN  set_currdata(RSub(mid[1], wval), RSub(mid[2], hval),
                     RAdd(mid[1], wval), RAdd(mid[2], hval))

\* as apply_zoomin, the whole width and height scaled where the halves are
apply_zoomin_whole(v, zf_in) ==
    LET mid == <<RAdd(v.currdata[1], RDiv(v.cd_width, R(2))),
                 RAdd(v.currdata[2], RDiv(v.cd_height, R(2)))>>
        wval == RMul(v.cd_width, zf_in)
        hval == RMul(v.cd_height, zf_in)
    IN  set_currdata(RSub(mid[1], wval), RSub(mid[2], hval),
                     RAdd(mid[1], wval), RAdd(mid[2], hval))

apply_zoomin(v, zf_in) ==
    LET mid == <<RAdd(v.currdata[1], RDiv(v.cd_width, R(2))),
                 RAdd(v.currdata[2], RDiv(v.cd_height, R(2)))>>
        wval == RMul(RDiv(v.cd_width, R(2)), zf_in)
        hval == RMul(RDiv(v.cd_height, R(2)), zf_in)
    IN  set_currdata(RSub(mid[1], wval), RSub(mid[2], hval),
                     RAdd(mid[1], wval), RAdd(mid[2], hval))

\* as apply_zoomout, the height scaled by the whole height, not by half of it
apply_zoomout_fullheight(v, zf_out) ==
    LET mid == <<RAdd(v.currdata[1], RDiv(v.cd_width, R(2))),
                 RAdd(v.currdata[2], RDiv(v.cd_height, R(2)))>>
        wval == RMul(RDiv(v.cd_width, R(2)), zf_out)
        hval == RMul(v.cd_height, zf_out)
    IN  set_currdata(RSub(mid[1], wval), RSub(mid[2], hval),
                     RAdd(mid[1], wval), RAdd(mid[2], hval))

\* as apply_zoomout, with the factor of apply_zoomin
apply_zoomout_infactor(v, zf_out) ==
    LET mid == <<RAdd(v.currdata[1], RDiv(v.cd_width, R(2))),
                 RAdd(v.currdata[2], RDiv(v.cd_height, R(2)))>>
        wval == RMul(RDiv(v.cd_width, R(2)), zoomfactor_in)
        hval == RMul(RDiv(v.cd_height, R(2)), zoomfactor_in)
    IN  set_currdata(RSub(mid[1], wval), RSub(mid[2], hval),
                     RAdd(mid[1], wval), RAdd(mid[2], hval))

apply_zoomout(v, zf_out) ==
    LET mid == <<RAdd(v.currdata[1], RDiv(v.cd_width, R(2))),
                 RAdd(v.currdata[2], RDiv(v.cd_height, R(2)))>>
        wval == RMul(RDiv(v.cd_width, R(2)), zf_out)
        hval == RMul(RDiv(v.cd_height, R(2)), zf_out)
    IN  set_currdata(RSub(mid[1], wval), RSub(mid[2], hval),
                     RAdd(mid[1], wval), RAdd(mid[2], hval))

(***************************************************************************)
(* The event handlers.  Each runs to completion on the GUI thread.         *)
(***************************************************************************)
Config == <<gui_pc, xmin, xmax, ymin, ymax, zoomfactor_in, zoomfactor_out>>

\* the else branch of a handler: logging.debug('Already processing...')
AlreadyProcessing(op) ==
    /\ handled' = [op |-> op, outcome |-> "dropped"]
    /\ UNCHANGED <<currdata, cd_width, cd_height, curr_zoomlvl, processing,
                   workers, nclicks>>

\* as button_mouse1_released, self.processing set before the test of inaxes
button_mouse1_released_eager(event) ==
    /\ IF ~processing
       THEN IF event.inaxes
            THEN /\ processing' = TRUE
                 /\ SetView(set_currdata_d(
                        calc_new_coordinates_around(View,
                            transform_coords(View, <<event.xdata, event.ydata>>))))
                 /\ calc_mandelbrot(currdata')
                 /\ nclicks' = nclicks + 1
                 /\ handled' = [op |-> "mouse1", outcome |-> "accepted"]
                 /\ UNCHANGED curr_zoomlvl
            ELSE /\ processing' = TRUE
                 /\ handled' = [op |-> "mouse1", outcome |-> "ignored"]
                 /\ UNCHANGED <<currdata, cd_width, cd_height, curr_zoomlvl,
                                workers, nclicks>>
       ELSE AlreadyProcessing("mouse1")
    /\ UNCHANGED <<Config, mset>>

button_mouse1_released(event) ==
    /\ IF ~processing
       THEN IF event.inaxes
            THEN /\ processing' = TRUE
                 /\ SetView(set_currdata_d(
                        calc_new_coordinates_around(View,
                            transform_coords(View, <<event.xdata, event.ydata>>))))
                 /\ calc_mandelbrot(currdata')
                 /\ nclicks' = nclicks + 1
                 /\ handled' = [op |-> "mouse1", outcome |-> "accepted"]
                 /\ UNCHANGED curr_zoomlvl
            ELSE /\ handled' = [op |-> "mouse1", outcome |-> "ignored"]
                 /\ UNCHANGED <<currdata, cd_width, cd_height, curr_zoomlvl,
                                processing, workers, nclicks>>
       ELSE AlreadyProcessing("mouse1")
    /\ UNCHANGED <<Config, mset>>

\* as button_mouse3_released, without the test of self.processing
button_mouse3_released_unguarded(event) ==
    /\ processing' = TRUE
    /\ SetView(set_currdata(xmin, ymin, xmax, ymax))
    /\ curr_zoomlvl' = 0
    /\ calc_mandelbrot(currdata')
    /\ handled' = [op |-> "mouse3", outcome |-> "accepted"]
    /\ UNCHANGED nclicks
    /\ UNCHANGED <<Config, mset>>

\* as button_mouse3_released, the zoom level left as it is
button_mouse3_released_keeplvl(event) ==
    /\ IF ~processing
       THEN /\ processing' = TRUE
            /\ SetView(set_currdata(xmin, ymin, xmax, ymax))
            /\ UNCHANGED curr_zoomlvl
            /\ calc_mandelbrot(currdata')
            /\ handled' = [op |-> "mouse3", outcome |-> "accepted"]
            /\ UNCHANGED nclicks
       ELSE AlreadyProcessing("mouse3")
    /\ UNCHANGED <<Config, mset>>

button_mouse3_released(event) ==
    /\ IF ~processing
       THEN /\ processing' = TRUE
            /\ SetView(set_currdata(xmin, ymin, xmax, ymax))
            /\ curr_zoomlvl' = 0
            /\ calc_mandelbrot(currdata')
            /\ handled' = [op |-> "mouse3", outcome |-> "accepted"]
            /\ UNCHANGED nclicks
       ELSE AlreadyProcessing("mouse3")
    /\ UNCHANGED <<Config, mset>>

\* as button_mousescrollup, the zoom level left as it is
button_mousescrollup_keeplvl(event) ==
    /\ IF ~processing
       THEN /\ processing' = TRUE
            /\ SetView(apply_zoomout(View, zoomfactor_out))
            /\ UNCHANGED curr_zoomlvl
            /\ calc_mandelbrot(currdata')
            /\ handled' = [op |-> "scrollup", outcome |-> "accepted"]
            /\ UNCHANGED nclicks
       ELSE AlreadyProcessing("scrollup")
    /\ UNCHANGED <<Config, mset>>

button_mousescrollup(event) ==
    /\ IF ~processing
       THEN /\ processing' = TRUE
            /\ SetView(apply_zoomout(View, zoomfactor_out))
            /\ curr_zoomlvl' = curr_zoomlvl - 1
            /\ calc_mandelbrot(currdata')
            /\ handled' = [op |-> "scrollup", outcome |-> "accepted"]
            /\ UNCHANGED nclicks
       ELSE AlreadyProcessing("scrollup")
    /\ UNCHANGED <<Config, mset>>

\* as button_mousescrolldown, the zoom level counted down
button_mousescrolldown_dec(event) ==
    /\ IF ~processing
       THEN /\ processing' = TRUE
            /\ SetView(apply_zoomin(View, zoomfactor_in))
            /\ curr_zoomlvl' = curr_zoomlvl - 1
            /\ calc_mandelbrot(currdata')
            /\ handled' = [op |-> "scrolldown", outcome |-> "accepted"]
            /\ UNCHANGED nclicks
       ELSE AlreadyProcessing("scrolldown")
    /\ UNCHANGED <<Config, mset>>

button_mousescrolldown(event) ==
    /\ IF ~processing
       THEN /\ processing' = TRUE
            /\ SetView(apply_zoomin(View, zoomfactor_in))
            /\ curr_zoomlvl' = curr_zoomlvl + 1
            /\ calc_mandelbrot(currdata')
            /\ handled' = [op |-> "scrolldown", outcome |-> "accepted"]
            /\ UNCHANGED nclicks
       ELSE AlreadyProcessing("scrolldown")
    /\ UNCHANGED <<Config, mset>>

\* an event no handler is registered for
Unregistered ==
    /\ handled' = [op |-> "unregistered", outcome |-> "ignored"]
    /\ UNCHANGED <<Config, mset, currdata, cd_width, cd_height, curr_zoomlvl,
                   processing, workers, nclicks>>

button_released(event) ==
    CASE event.button = "1"    -> button_mouse1_released(event)
      [] event.button = "3"    -> button_mouse3_released(event)
      [] event.button = "up"   -> button_mousescrollup(event)
      [] event.button = "down" -> button_mousescrolldown(event)
      [] OTHER                 -> Unregistered

key_released(event) ==
    CASE event.key = "+" -> button_mousescrolldown(event)
      [] event.key = "-" -> button_mousescrollup(event)
      [] OTHER           -> Unregistered

(***************************************************************************)
(* The events the window system delivers to the main loop.                 *)
(***************************************************************************)
\* event.xdata, event.ydata of a release inside the axes
ClickPoints == { <<R(375), R(375)>>, <<R(150), R(600)>> }

ButtonEvents ==
    { [button |-> "1", inaxes |-> TRUE, xdata |-> p[1], ydata |-> p[2]] :
          p \in ClickPoints }
    \cup { [button |-> b, inaxes |-> FALSE, xdata |-> NoCoord, ydata |-> NoCoord] :
          b \in {"1", "2", "3", "up", "down"} }

KeyEvents == { [key |-> k] : k \in {"+", "-", "q"} }

\* The figure has axes only once a callback has added the subplot, and the
\* model stops zooming and clicking at its bounds.
Delivered(event) ==
    /\ gui_pc = "mainloop"
    /\ "inaxes" \in DOMAIN event /\ event.inaxes
           => mset # None /\ nclicks < MaxClicks
    /\ ("button" \in DOMAIN event /\ event.button = "down")
         \/ ("key" \in DOMAIN event /\ event.key = "+")
           => curr_zoomlvl < MaxZoom
    /\ ("button" \in DOMAIN event /\ event.button = "up")
         \/ ("key" \in DOMAIN event /\ event.key = "-")
           => curr_zoomlvl > -MaxZoom

Step ==
    \/ display
    \/ \E event \in ButtonEvents : Delivered(event) /\ button_released(event)
    \/ \E event \in KeyEvents : Delivered(event) /\ key_released(event)
    \/ \E i \in 1..Len(workers) : run(i)
    \/ \E i \in 1..Len(workers) : calc_mandelbrot_callback_done(i)

Next == Step /\ UNCHANGED <<prezoom, call, result>>

Spec == Init /\ [][Next]_vars

\* The same steps, with the history of the last accepted request kept.
RecordZoom ==
    prezoom' = IF handled'.outcome = "accepted"
               THEN IF handled'.op \in {"scrollup", "scrolldown"}
                    THEN [op |-> handled'.op, before |-> prezoom.op,
                          currdata |-> currdata, curr_zoomlvl |-> curr_zoomlvl]
                    ELSE NoZoom
               ELSE prezoom

NextHist == Step /\ RecordZoom /\ UNCHANGED <<call, result>>

SpecHist == Init /\ [][NextHist]_vars

(***************************************************************************)
(* A pass that fails.  GUIWorker.run calls mandelbrot_set_for_image        *)
(* outside any try: when it raises (np.empty and range raise TypeError     *)
(* when dpi * width is not an int, np.empty raises MemoryError), the       *)
(* exception leaves run, the thread ends and the callback is not called.   *)
(***************************************************************************)
run_raises(i) ==
    /\ i \in 1..Len(workers)
    /\ workers[i].pc = "started"
    /\ workers' = Remove(workers, i)
    /\ handled' = NoEvent
    /\ UNCHANGED <<gui_pc, xmin, xmax, ymin, ymax, zoomfactor_in,
                   zoomfactor_out, currdata, cd_width, cd_height,
                   curr_zoomlvl, processing, mset, nclicks>>

NextFail ==
    \/ Next
    \/ \E i \in 1..Len(workers) :
          run_raises(i) /\ UNCHANGED <<prezoom, call, result>>

SpecFail == Init /\ [][NextFail]_vars

\* Every started thread is scheduled: a worker that can take a step
\* eventually takes one.
WorkerStep ==
    \E i \in 1..Len(workers) :
        (run(i) \/ run_raises(i) \/ calc_mandelbrot_callback_done(i))
        /\ UNCHANGED <<prezoom, call, result>>

SpecFailFair == SpecFail /\ WF_vars(WorkerStep)

(***************************************************************************)
(* src/service/mandelbrotops.py.  A complex number is <<re, im>>, both     *)
(* exact rationals.                                                        *)
(***************************************************************************)
MaxIterK == 3    \* largest maxiter of a direct call of mandelbrot
GridHalves == 4  \* the points tried are k/2 + (l/2)i, k and l in -GridHalves..GridHalves
MaxDim == 2      \* largest width and height of a direct call of the sampler
MaxDpi == 2      \* largest dpi of such a call

complex(re, im) == <<re, im>>
CAdd(z, w) == <<RAdd(z[1], w[1]), RAdd(z[2], w[2])>>
CMul(z, w) ==
    <<RSub(RMul(z[1], w[1]), RMul(z[2], w[2])),
      RAdd(RMul(z[1], w[2]), RMul(z[2], w[1]))>>

\* abs(z) > horizon, for a horizon that is not negative
abs_gt(z, horizon) ==
    RLess(RMul(horizon, horizon), RAdd(RMul(z[1], z[1]), RMul(z[2], z[2])))

\* the loop of mandelbrot from its iteration n on, z being the value it holds
RECURSIVE mandelbrot_loop(_, _, _, _, _)
mandelbrot_loop(z, c, n, mi, horizon) ==
    IF n >= mi THEN 0
    ELSE IF abs_gt(z, horizon) THEN n
    ELSE mandelbrot_loop(CAdd(CMul(z, z), c), c, n + 1, mi, horizon)

\* as mandelbrot, the orbit seeded with 0 instead of c
mandelbrot_zero_seed(c, mi, horizon) ==
    mandelbrot_loop(complex(R(0), R(0)), c, 0, mi, horizon)

mandelbrot(c, mi, horizon) == mandelbrot_loop(c, c, 0, mi, horizon)

\* as linspace, the interval divided in num steps and the end point left out
linspace_noend(start, stop, num) ==
    [i \in 0..(num - 1) |->
        RAdd(start, RMul(R(i), RDiv(RSub(stop, start), R(num))))]

\* np.linspace(start, stop, num), an array indexed from 0
linspace(start, stop, num) ==
    [i \in 0..(num - 1) |->
        IF num = 1 THEN start
        ELSE IF i = num - 1 THEN stop
        ELSE RAdd(start, RMul(R(i), RDiv(RSub(stop, start), R(num - 1))))]

\* mandelbrot_set: the grid n3, n3[i][j] for n3[i, j]
mandelbrot_set(x0, x1, y0, y1, w, h, mi) ==
    LET r1 == linspace(x0, x1, w)
        r2 == linspace(y0, y1, h)
    IN  [i \in 0..(w - 1) |->
            [j \in 0..(h - 1) |-> mandelbrot(complex(r1[i], r2[j]), mi, R(2))]]

\* the array a grid of a pass stands for
Grid(g) ==
    mandelbrot_set(g.xmin, g.xmax, g.ymin, g.ymax,
                   g.img_width, g.img_height, g.maxiter)

Points ==
    { complex(Q(k, 2), Q(l, 2)) : k, l \in (-GridHalves)..GridHalves }

KernelCalls ==
    { [fn |-> "mandelbrot", c |-> c, maxiter |-> mi] :
          c \in Points, mi \in 0..MaxIterK }
    \cup { [fn |-> "mandelbrot", c |-> complex(R(k), R(0)), maxiter |-> 50] :
               k \in {0, 2} }

Intervals == { <<R(-2), R(0)>>, <<R(-1), R(1)>> }

\* the values of maxiter of a direct call of the sampler: the sample points
\* are fractions whose denominators are squared by every iteration
SamplerIters == {0, 1, 2}

SamplerCalls ==
    { [fn |-> "mandelbrot_set_for_image",
       xmin |-> x[1], xmax |-> x[2], ymin |-> y[1], ymax |-> y[2],
       width |-> w, height |-> h, maxiter |-> mi, dpi |-> d] :
          x \in Intervals, y \in Intervals,
          w \in 1..MaxDim, h \in 1..MaxDim, mi \in SamplerIters,
          d \in 1..MaxDpi }

GUIUnchanged ==
    UNCHANGED <<gui_pc, xmin, xmax, ymin, ymax, zoomfactor_in, zoomfactor_out,
                currdata, cd_width, cd_height, curr_zoomlvl, processing, mset,
                workers, handled, nclicks, prezoom>>

call_mandelbrot ==
    \E k \in KernelCalls :
        /\ call = None
        /\ call' = k
        /\ result' = mandelbrot(k.c, k.maxiter, R(2))
        /\ GUIUnchanged

call_mandelbrot_set_for_image ==
    \E k \in SamplerCalls :
        /\ call = None
        /\ call' = k
        /\ result' = Grid(mandelbrot_set_for_image(k.xmin, k.xmax, k.ymin, k.ymax,
                                                   k.width, k.height,
                                                   k.maxiter, k.dpi))
        /\ GUIUnchanged

NextOps == call_mandelbrot \/ call_mandelbrot_set_for_image

SpecOps == Init /\ [][NextOps]_vars

(***************************************************************************)
(* Properties.                                                             *)
(***************************************************************************)
NavOps == {"mouse1", "mouse3", "scrollup", "scrolldown"}

Original == <<xmin, ymin, xmax, ymax>>

\* the step is the handler op, run on a request that finds processing false
Accepts(op) == handled'.op = op /\ ~processing

\* the step starts one worker, on the viewport the step leaves
Dispatches ==
    /\ Len(workers') = Len(workers) + 1
    /\ SubSeq(workers', 1, Len(workers)) = workers
    /\ LET w == workers'[Len(workers')]
       IN  /\ <<w.xmin, w.ymin, w.xmax, w.ymax>> = currdata'
           /\ w.pc = "started"

Centre(data) == <<RDiv(RAdd(data[1], data[3]), R(2)),
                  RDiv(RAdd(data[2], data[4]), R(2))>>
HalfWidth(data) == RDiv(RSub(data[3], data[1]), R(2))
HalfHeight(data) == RDiv(RSub(data[4], data[2]), R(2))

\* C1: at most one sample pass (a started worker whose callback has not
\* finished) is in flight at any time, from construction onwards.
C1_AtMostOnePassInFlight == Len(workers) <= 1

\* C2: processing is true exactly when a sample pass is in flight.
C2_ProcessingIffPassInFlight == processing <=> Len(workers) > 0

\* C3: a navigation request that arrives while processing is true changes
\* neither the viewport, its width and height, the zoom level nor the flag
\* and starts no worker; and it is not kept for later: the viewport changes
\* only in the step of a request that found processing false.
C3_RequestWhileProcessingDropped ==
    [][ /\ (processing /\ handled'.op \in NavOps)
            => UNCHANGED <<currdata, cd_width, cd_height, curr_zoomlvl,
                           processing, workers>>
        /\ (currdata' # currdata \/ Len(workers') > Len(workers))
            => /\ ~processing
               /\ handled'.op \in NavOps \/ gui_pc = "constructed" ]_vars

C3_Witness ==
    /\ processing
    /\ handled = [op |-> "mouse3", outcome |-> "dropped"]
    /\ curr_zoomlvl # 0

\* C4: the viewport always has xmin < xmax and ymin < ymax.
C4_ViewportOrdered ==
    /\ RLess(currdata[1], currdata[3])
    /\ RLess(currdata[2], currdata[4])

C4_Witness ==
    /\ nclicks = 1
    /\ curr_zoomlvl = 1
    /\ currdata # Original
    /\ handled = [op |-> "scrolldown", outcome |-> "accepted"]

\* C5: a reset accepted while processing is false sets the viewport to the
\* bounds given at construction and the zoom level to 0, sets processing
\* and dispatches one pass; no step changes the bounds given at construction.
C5_ResetRestoresOriginal ==
    [][ /\ UNCHANGED <<xmin, xmax, ymin, ymax>>
        /\ Accepts("mouse3")
            => /\ currdata' = Original
               /\ curr_zoomlvl' = 0
               /\ processing'
               /\ Dispatches ]_vars

C5_Witness ==
    /\ handled = [op |-> "mouse3", outcome |-> "accepted"]
    /\ nclicks = 1
    /\ mset # None
    /\ <<mset.xmin, mset.ymin, mset.xmax, mset.ymax>> # Original
    /\ currdata = Original
    /\ curr_zoomlvl = 0

\* C6: an accepted zoom-out whose preceding accepted request was a zoom-in
\* returns the viewport and the zoom level to what they were before that
\* zoom-in, and likewise a zoom-in that follows a zoom-out.
C6_ZoomRoundTrip ==
    [][ ( \/ (Accepts("scrollup") /\ prezoom.op = "scrolldown")
          \/ (Accepts("scrolldown") /\ prezoom.op = "scrollup") )
        => ( /\ currdata' = prezoom.currdata
             /\ curr_zoomlvl' = prezoom.curr_zoomlvl ) ]_vars

C6_Witness ==
    /\ handled = [op |-> "scrollup", outcome |-> "accepted"]
    /\ prezoom.op = "scrollup"
    /\ prezoom.before = "scrolldown"
    /\ nclicks = 1
    /\ workers # <<>>

\* C7: an accepted zoom-in keeps the centre of the viewport, multiplies its
\* half-width and half-height by zoomfactor_in and dispatches a pass; from
\* (-2.0, -1.25, 0.5, 1.25) with factor 0.7 it gives
\* (-1.625, -0.875, 0.125, 0.875).
C7_ZoomIn ==
    [][ Accepts("scrolldown")
        => /\ Centre(currdata') = Centre(currdata)
           /\ HalfWidth(currdata') = RMul(HalfWidth(currdata), zoomfactor_in)
           /\ HalfHeight(currdata') = RMul(HalfHeight(currdata), zoomfactor_in)
           /\ Dispatches
           /\ (/\ currdata = <<Q(-2, 1), Q(-5, 4), Q(1, 2), Q(5, 4)>>
               /\ zoomfactor_in = Q(7, 10))
               => currdata' = <<Q(-13, 8), Q(-7, 8), Q(1, 8), Q(7, 8)>> ]_vars

C7_Witness ==
    /\ handled = [op |-> "scrolldown", outcome |-> "accepted"]
    /\ zoomfactor_in = Q(7, 10)
    /\ currdata = <<Q(-13, 8), Q(-7, 8), Q(1, 8), Q(7, 8)>>
    /\ Len(workers) >= 1

\* C8: an accepted zoom-out keeps the centre of the viewport, multiplies its
\* half-width and half-height by zoomfactor_out = 1 / zoomfactor_in, so that
\* the viewport strictly grows, and dispatches a pass.
C8_ZoomOut ==
    [][ Accepts("scrollup")
        => /\ RMul(zoomfactor_out, zoomfactor_in) = R(1)
           /\ Centre(currdata') = Centre(currdata)
           /\ HalfWidth(currdata') = RMul(HalfWidth(currdata), zoomfactor_out)
           /\ HalfHeight(currdata') = RMul(HalfHeight(currdata), zoomfactor_out)
           /\ RLess(HalfWidth(currdata), HalfWidth(currdata'))
           /\ RLess(HalfHeight(currdata), HalfHeight(currdata'))
           /\ RLess(cd_width, cd_width') /\ RLess(cd_height, cd_height')
           /\ Dispatches ]_vars

C8_Witness ==
    /\ handled = [op |-> "scrollup", outcome |-> "accepted"]
    /\ curr_zoomlvl = -1
    /\ RLess(RSub(xmax, xmin), cd_width)
    /\ Len(workers) >= 1

\* C9: the zoom level starts at 0; an accepted zoom-in adds 1 to it, an
\* accepted zoom-out subtracts 1, a click leaves it as it is, and so does
\* every step of a worker and of its completion callback.
C9_ZoomLevelSteps ==
    /\ curr_zoomlvl = 0
    /\ [][ /\ Accepts("scrolldown") => curr_zoomlvl' = curr_zoomlvl + 1
           /\ Accepts("scrollup") => curr_zoomlvl' = curr_zoomlvl - 1
           /\ handled'.op = "mouse1" => curr_zoomlvl' = curr_zoomlvl
           /\ handled'.op = "none" => curr_zoomlvl' = curr_zoomlvl ]_vars

C9_Witness ==
    /\ handled = [op |-> "mouse1", outcome |-> "accepted"]
    /\ curr_zoomlvl = 1
    /\ nclicks = 1

\* C10, as claimed: the zoom level is incremented on each accepted zoom-out,
\* decremented on each accepted zoom-in and reset to 0 by a reset.
C10_AsClaimed ==
    /\ curr_zoomlvl = 0
    /\ [][ /\ Accepts("scrollup") => curr_zoomlvl' = curr_zoomlvl + 1
           /\ Accepts("scrolldown") => curr_zoomlvl' = curr_zoomlvl - 1
           /\ Accepts("mouse3") => curr_zoomlvl' = 0 ]_vars

\* C10, amended: the zoom level is a signed counter that starts at 0, is
\* incremented on each accepted zoom-in, decremented on each accepted
\* zoom-out and reset to 0 by a reset.
C10_ZoomLevelSigned ==
    /\ curr_zoomlvl = 0
    /\ [][ /\ Accepts("scrolldown") => curr_zoomlvl' = curr_zoomlvl + 1
           /\ Accepts("scrollup") => curr_zoomlvl' = curr_zoomlvl - 1
           /\ Accepts("mouse3") => curr_zoomlvl' = 0 ]_vars

C10_Witness ==
    /\ curr_zoomlvl < 0
    /\ handled = [op |-> "scrollup", outcome |-> "accepted"]
    /\ currdata # Original

\* the plane point of the screen point p in the viewport data, from the
\* bounds alone
PlanePoint(data, p) ==
    <<RAdd(RMul(RDiv(p[1], R(img_width)), RSub(data[3], data[1])), data[1]),
      RAdd(RMul(RDiv(p[2], R(img_height)), RSub(data[4], data[2])), data[2])>>

C12_CallbackExactlyOnce ==
    [][ /\ Len(workers') < Len(workers)
            => \E i \in 1..Len(workers) :
                  /\ workers[i].pc = "callback"
                  /\ workers' = Remove(workers, i)
        /\ Len(workers') = Len(workers)
            => \A i \in 1..Len(workers) :
                  \/ workers'[i] = workers[i]
                  \/ /\ workers[i].pc = "started"
                     /\ workers'[i].pc = "callback"
        /\ mset' # mset
            => /\ Len(workers') = Len(workers)
               /\ \E i \in 1..Len(workers) : workers'[i].pc # workers[i].pc
      ]_vars

\* C13: whenever processing is true it is eventually false again: the
\* controller does not stay in Processing for ever.
C13_ProcessingEnds == processing ~> ~processing

\* a step taken by the thread of a worker: a worker moves on or ends, none is
\* created
WorkerThreadStep ==
    /\ workers' # workers
    /\ Len(workers') <= Len(workers)

\* C14: the completion handler runs on the interactive context: no step of a
\* worker thread writes processing, the displayed grid, the current viewport
\* or the zoom level.
C14_WritesOnlyByGUI ==
    [][ WorkerThreadStep
            => /\ processing' = processing
               /\ mset' = mset
               /\ currdata' = currdata
               /\ curr_zoomlvl' = curr_zoomlvl ]_vars

\* what a worker took at dispatch
Snapshot(w) ==
    <<w.xmin, w.xmax, w.ymin, w.ymax, w.width, w.height, w.maxiter, w.dpi>>

\* the sample of the viewport data with the settings of the controller
SampleOf(data) ==
    mandelbrot_set_for_image(data[1], data[3], data[2], data[4],
                             width, height, maxiter, dpi)

\* C15: a pass computes from a snapshot taken at dispatch: the worker created
\* by a dispatch holds the viewport and settings of that moment, nothing
\* changes them while the pass is in flight, and the grid it hands over is the
\* sample of that snapshot, whatever the current viewport has become.
C15_SnapshotAtDispatch ==
    [][ /\ Len(workers') > Len(workers)
            => /\ Len(workers') = Len(workers) + 1
               /\ SubSeq(workers', 1, Len(workers)) = workers
               /\ Snapshot(workers'[Len(workers')])
                    = <<currdata'[1], currdata'[3], currdata'[2], currdata'[4],
                        width, height, maxiter, dpi>>
        /\ Len(workers') = Len(workers)
            => \A i \in 1..Len(workers) :
                  /\ Snapshot(workers'[i]) = Snapshot(workers[i])
                  /\ workers'[i].pc # workers[i].pc
                       => mset' = SampleOf(<<workers[i].xmin, workers[i].ymin,
                                             workers[i].xmax, workers[i].ymax>>)
        /\ Len(workers') < Len(workers)
            => \E i \in 1..Len(workers) : workers' = Remove(workers, i)
        /\ mset' # mset
            => \E i \in 1..Len(workers) :
                  /\ Len(workers') = Len(workers)
                  /\ workers'[i].pc # workers[i].pc
      ]_vars

\* a pass has just handed over the grid of its snapshot while the current
\* viewport is another one
C15_Witness ==
    /\ mset # None
    /\ \E i \in 1..Len(workers) :
          /\ workers[i].pc = "callback"
          /\ mset = SampleOf(<<workers[i].xmin, workers[i].ymin,
                               workers[i].xmax, workers[i].ymax>>)
          /\ <<workers[i].xmin, workers[i].ymin,
               workers[i].xmax, workers[i].ymax>> # currdata

\* the orbit of c: z_0 = c, z_{k+1} = z_k^2 + c
OrbitStep(z, c) == CAdd(CMul(z, z), c)

\* the orbit <<z_0, ..., z_k>>, grown from its first values s
RECURSIVE OrbitFrom(_, _, _)
OrbitFrom(s, c, k) ==
    IF Len(s) > k THEN s
    ELSE OrbitFrom(Append(s, OrbitStep(s[Len(s)], c)), c, k)

Orbit(c, k) == OrbitFrom(<<c>>, c, k)[k + 1]

\* n is the first index at which the orbit of c is beyond the horizon
FirstEscape(c, n, horizon) ==
    /\ \A m \in 0..(n - 1) : ~abs_gt(Orbit(c, m), horizon)
    /\ abs_gt(Orbit(c, n), horizon)

\* the smallest n in [0, mi) with |z_n| > horizon, and 0 if there is none
Reference(c, mi, horizon) ==
    IF \E n \in 0..(mi - 1) : FirstEscape(c, n, horizon)
    THEN CHOOSE n \in 0..(mi - 1) : FirstEscape(c, n, horizon)
    ELSE 0

\* C16: mandelbrot(c, maxiter) with horizon 2 is the reference: the smallest n
\* in [0, maxiter) at which the orbit seeded with z_0 = c is beyond the
\* horizon, and 0 if there is none; 0+0i with maxiter 50 gives 0 and 2+0i
\* with maxiter 50 gives 1.
C16_EscapeIterations ==
    (call # None /\ call.fn = "mandelbrot")
        => /\ result = Reference(call.c, call.maxiter, R(2))
           /\ (call.c = complex(R(0), R(0)) /\ call.maxiter = 50) => result = 0
           /\ (call.c = complex(R(2), R(0)) /\ call.maxiter = 50) => result = 1

\* a point whose orbit leaves the disc at its third value, not at c itself
C16_Witness ==
    /\ call # None
    /\ call.fn = "mandelbrot"
    /\ call.c = complex(Q(-3, 2), Q(1, 2))
    /\ call.maxiter = MaxIterK
    /\ ~abs_gt(call.c, R(2))
    /\ result = 2

\* sample i of num over [a, b]: a alone when num is 1, and otherwise
\* a + i (b - a) / (num - 1), which is a at i = 0 and b at i = num - 1
SamplePoint(a, b, num, i) ==
    IF num = 1 THEN a
    ELSE RAdd(a, RDiv(RMul(R(i), RSub(b, a)), R(num - 1)))

SamplerCalled == call # None /\ call.fn = "mandelbrot_set_for_image"
W == call.dpi * call.width
H == call.dpi * call.height

\* the grid has exactly W x H cells, each in [0, maxiter], cell (i, j) is the
\* reference at sample (i, j), and the viewport of the controller is as it was
GridAsSampled ==
    /\ DOMAIN result = 0..(W - 1)
    /\ \A i \in 0..(W - 1) :
          /\ DOMAIN result[i] = 0..(H - 1)
          /\ \A j \in 0..(H - 1) :
                /\ result[i][j] \in 0..call.maxiter
                /\ result[i][j]
                     = Reference(complex(SamplePoint(call.xmin, call.xmax, W, i),
                                         SamplePoint(call.ymin, call.ymax, H, j)),
                                 call.maxiter, R(2))
    /\ currdata = Original
    /\ cd_width = RSub(xmax, xmin)
    /\ cd_height = RSub(ymax, ymin)

\* C17, as claimed: for all W >= 1 and H >= 1 the grid is W x H, cell (i, j)
\* is the reference at (x_i, y_j), the x_i being W evenly spaced values over
\* [xmin, xmax] with both end points among them and the y_j likewise.
C17_AsClaimed ==
    SamplerCalled
        => /\ GridAsSampled
           /\ \A i \in 0..(W - 1) : \A j \in 0..(H - 1) :
                 /\ i = W - 1
                      => result[i][j]
                           = Reference(complex(call.xmax,
                                               SamplePoint(call.ymin, call.ymax, H, j)),
                                       call.maxiter, R(2))
                 /\ j = H - 1
                      => result[i][j]
                           = Reference(complex(SamplePoint(call.xmin, call.xmax, W, i),
                                               call.ymax),
                                       call.maxiter, R(2))

\* C17: the grid is W x H, every cell in [0, maxiter], cell (i, j) the
\* reference at (x_i, y_j); the x_i are W evenly spaced values from xmin to
\* xmax, both included, when W >= 2, and the single value xmin when W = 1;
\* the y_j likewise; the viewport is not modified.
C17_SampleRegion ==
    SamplerCalled
        => /\ GridAsSampled
           /\ linspace(call.xmin, call.xmax, W)
                = [i \in 0..(W - 1) |-> SamplePoint(call.xmin, call.xmax, W, i)]
           /\ linspace(call.ymin, call.ymax, H)
                = [j \in 0..(H - 1) |-> SamplePoint(call.ymin, call.ymax, H, j)]
           /\ W >= 2 => /\ SamplePoint(call.xmin, call.xmax, W, 0) = call.xmin
                        /\ SamplePoint(call.xmin, call.xmax, W, W - 1) = call.xmax
           /\ H >= 2 => /\ SamplePoint(call.ymin, call.ymax, H, 0) = call.ymin
                        /\ SamplePoint(call.ymin, call.ymax, H, H - 1) = call.ymax

\* a grid of 4 x 2 cells over [-1, 1] x [-1, 1] that has a cell 0 and a cell 1
C17_Witness ==
    /\ SamplerCalled
    /\ W = 4
    /\ H = 2
    /\ call.maxiter = 2
    /\ <<call.xmin, call.xmax, call.ymin, call.ymax>> = <<R(-1), R(1), R(-1), R(1)>>
    /\ DOMAIN result = 0..3
    /\ \E i, k \in 0..3 : result[i][1] = 0 /\ result[k][1] = 1

\* C18: in every reachable state the stored width and height are
\* |xmax - xmin| and |ymax - ymin| of the current viewport.
C18_DerivedSizeNeverStale ==
    /\ cd_width = fabs(RSub(currdata[3], currdata[1]))
    /\ cd_height = fabs(RSub(currdata[4], currdata[2]))

\* the viewport has been zoomed in and moved by a click
C18_Witness ==
    /\ nclicks = 1
    /\ curr_zoomlvl = 1
    /\ currdata # Original
    /\ cd_width = RMul(RSub(xmax, xmin), zoomfactor_in)
    /\ RSub(currdata[3], currdata[1]) = cd_width
    /\ Centre(currdata) # Centre(Original)

\* C19: a pass that fails inside the worker still ends in a completion that
\* clears processing: when a thread ends without having called the callback,
\* the controller is not left in Processing.
C19_FailureStillCompletes ==
    [][ (\E i \in 1..Len(workers) :
            /\ workers[i].pc = "started"
            /\ workers' = Remove(workers, i))
          => ~processing' ]_vars

\* C20: whenever no pass is in flight and a pass has completed, the grid last
\* handed to the renderer is the sample of the current viewport.
C20_DisplayedIsCurrent ==
    (Len(workers) = 0 /\ mset # None) => mset = SampleOf(currdata)

\* C21: a left-button release outside the axes while processing is false
\* changes nothing: viewport, zoom level and processing are as before and no
\* pass is dispatched, so it cannot leave the controller in Processing with
\* no pass in flight.
C21_ClickOutsideAxes ==
    [][ handled' = [op |-> "mouse1", outcome |-> "ignored"]
            => /\ ~processing
               /\ UNCHANGED <<currdata, cd_width, cd_height, curr_zoomlvl,
                              processing, workers, mset>>
               /\ ~(processing' /\ Len(workers') = 0) ]_vars

\* the release came when the image of a zoomed viewport was shown and no pass
\* was in flight
C21_Witness ==
    /\ handled = [op |-> "mouse1", outcome |-> "ignored"]
    /\ ~processing
    /\ Len(workers) = 0
    /\ mset # None
    /\ curr_zoomlvl = 1

\* a to the power n, n an integer of either sign
RECURSIVE RPow(_, _)
RPow(a, n) ==
    IF n = 0 THEN R(1)
    ELSE IF n > 0 THEN RMul(a, RPow(a, n - 1))
    ELSE RDiv(RPow(a, n + 1), a)

\* C22: in every reachable state the size of the viewport is determined by
\* the zoom level: width = original width * zoomfactor^level and
\* height = original height * zoomfactor^level, in exact arithmetic.
C22_SizeFromZoomLevel ==
    /\ RSub(currdata[3], currdata[1])
         = RMul(RSub(xmax, xmin), RPow(zoomfactor_in, curr_zoomlvl))
    /\ RSub(currdata[4], currdata[2])
         = RMul(RSub(ymax, ymin), RPow(zoomfactor_in, curr_zoomlvl))

\* a zoom out after a click: the level is negative and the viewport is
\* centred elsewhere
C22_Witness ==
    /\ handled = [op |-> "scrollup", outcome |-> "accepted"]
    /\ curr_zoomlvl = -1
    /\ nclicks = 1
    /\ Centre(currdata) # Centre(Original)
    /\ RLess(RSub(xmax, xmin), RSub(currdata[3], currdata[1]))

====
